---- MODULE Spec2Model ----
(***************************************************************************)
(* Model of tomviz::OperatorPython (src/tomviz/OperatorPython.cxx): the    *)
(* Python operator that compiles a transform script, parses a JSON         *)
(* descriptor of its outputs, runs the transform on a pipeline worker      *)
(* thread and hands results / child datasets to the thread that owns the   *)
(* operator through queued signal-slot connections.                        *)
(***************************************************************************)
EXTENDS Integers, Sequences, FiniteSets, TLC

\* ------------------------------------------------------------------ bounds
\* applyTransform invocations explored in one behaviour (one invocation posts
\* up to three messages, which the owner drains while the worker runs)
MaxRuns == 1

\* ----------------------------------------------------------- interpreter
\* A null PyObject* / empty vtkSmartPyObject.
Null == <<>>

\* Script texts offered to setScript.  The interpreter's verdict on each text
\* (Py_CompileString, PyImport_ExecCodeModule, find_transform_scalars,
\* is_cancelable) is a fixed property of the text.
S_Empty == ""
S_Syntax == "def transform_scalars(dataset:"
S_Raises == "raise RuntimeError()"
S_NoEntry == "x = 1"
S_BadQuery == "def transform_scalars(dataset): pass  # is_cancelable raises"
S_Plain == "def transform_scalars(dataset): pass"
S_Cancel == "class T(tomviz.operators.CancelableOperator): ..."

Scripts == {S_Empty, S_Syntax, S_Raises, S_NoEntry, S_BadQuery, S_Plain, S_Cancel}

\* Py_CompileString returns a code object unless the text has a syntax error.
Compiles(text) == text # S_Syntax

\* PyImport_ExecCodeModule returns the module unless executing the code raises.
ModuleLoads(text) == text # S_Raises

\* find_transform_scalars returns a callable iff the module defines the entry
\* point (function or operator class); otherwise it raises (NULL result).
HasEntryPoint(text) == text \in {S_BadQuery, S_Plain, S_Cancel}

\* is_cancelable(module): "yes" (Py_True), "no" (Py_False) or "fail" (NULL).
CancelQuery(text) ==
  IF text = S_BadQuery THEN "fail"
  ELSE IF text = S_Cancel THEN "yes"
  ELSE "no"

\* Py_CompileString(Script, label, Py_file_input)
Py_CompileString(text) ==
  IF Compiles(text) THEN <<"code", text>> ELSE Null

\* QString("tomviz_%1").arg(label)
ModuleName(label) == <<"tomviz_", label>>

\* PyImport_ExecCodeModule(name, code)
PyImport_ExecCodeModule(name, code) ==
  IF code # Null /\ ModuleLoads(code[2]) THEN <<"module", name, code[2]>> ELSE Null

\* Mutation: find_transform_scalars returns None instead of raising when the
\* module has no entry point, so a non-null object is stored.
FindTransformScalarsNone(module) ==
  IF module # Null THEN <<"method", module[3]>> ELSE Null

\* PyObject_Call(FindTransformScalarsFunction, (module, capsule))
FindTransformScalars(module) ==
  IF module # Null /\ HasEntryPoint(module[3]) THEN <<"method", module[3]>> ELSE Null

\* PyObject_Call(IsCancelableFunction, (module))
IsCancelable(module) == CancelQuery(module[3])

\* ------------------------------------------------------------- descriptor
\* A JSON null / absent member.
JNull == "<null>"

Labels == {"Python Operator", "Transform Data"}

\* Names that scripts and descriptors use for outputs.
Names == {"a", "b", "c"}

D_None == ""
D_Bad == "{\"results\": ["
D_Empty == "{}"
D_One == "{\"results\":[{\"name\":\"a\",\"label\":\"A\"}]}"
D_Full == "{\"label\":\"Transform Data\",\"results\":[{\"name\":\"b\",\"label\":\"B\"},{\"name\":\"a\",\"label\":\"A\"}],\"children\":[{\"name\":\"c\",\"label\":\"C\"}]}"

\* An entry of results without a label.
D_NoLabel == "{\"results\":[{\"name\":\"c\"}]}"
\* Two children.
D_TwoKids == "{\"children\":[{\"name\":\"c\",\"label\":\"C\"},{\"name\":\"b\",\"label\":\"B2\"}]}"
\* A first child without a label.
D_KidNoLabel == "{\"children\":[{\"name\":\"c\"}]}"

\* The documents offered to an operator that also runs, and the larger set
\* offered to an operator that is only configured.
Documents == {D_None, D_Bad, D_Empty, D_One, D_Full}
DescriptorDocuments == Documents \cup {D_NoLabel, D_TwoKids, D_KidNoLabel}

\* Json::Reader::parse: ok = FALSE for a malformed document; otherwise the
\* members of the root object.  results / children are JNull when the member
\* is absent, else the array of entries.
JsonParse(str) ==
  IF str = D_Empty THEN
    [ok |-> TRUE, label |-> JNull, hasResults |-> FALSE, results |-> <<>>,
     hasChildren |-> FALSE, children |-> <<>>]
  ELSE IF str = D_One THEN
    [ok |-> TRUE, label |-> JNull, hasResults |-> TRUE,
     results |-> <<[name |-> "a", label |-> "A"]>>,
     hasChildren |-> FALSE, children |-> <<>>]
  ELSE IF str = D_Full THEN
    [ok |-> TRUE, label |-> "Transform Data", hasResults |-> TRUE,
     results |-> <<[name |-> "b", label |-> "B"], [name |-> "a", label |-> "A"]>>,
     hasChildren |-> TRUE, children |-> <<[name |-> "c", label |-> "C"]>>]
  ELSE IF str = D_NoLabel THEN
    [ok |-> TRUE, label |-> JNull, hasResults |-> TRUE,
     results |-> <<[name |-> "c", label |-> JNull]>>,
     hasChildren |-> FALSE, children |-> <<>>]
  ELSE IF str = D_TwoKids THEN
    [ok |-> TRUE, label |-> JNull, hasResults |-> FALSE, results |-> <<>>,
     hasChildren |-> TRUE,
     children |-> <<[name |-> "c", label |-> "C"], [name |-> "b", label |-> "B2"]>>]
  ELSE IF str = D_KidNoLabel THEN
    [ok |-> TRUE, label |-> JNull, hasResults |-> FALSE, results |-> <<>>,
     hasChildren |-> TRUE, children |-> <<[name |-> "c", label |-> JNull]>>]
  ELSE
    [ok |-> FALSE, label |-> JNull, hasResults |-> FALSE, results |-> <<>>,
     hasChildren |-> FALSE, children |-> <<>>]

RECURSIVE NamesOfEntries(_)
\* The loop of lines 217-231 restricted to m_resultNames: the names of the
\* entries that carry one, in array order.
NamesOfEntries(entries) ==
  IF entries = <<>> THEN <<>>
  ELSE IF Head(entries).name # JNull
       THEN <<Head(entries).name>> \o NamesOfEntries(Tail(entries))
       ELSE NamesOfEntries(Tail(entries))

\* Mutation: the clear() of m_resultNames moved inside the results branch.
ParsedResultNamesKeep(old, root) ==
  IF root.hasResults THEN NamesOfEntries(root.results) ELSE old

\* m_resultNames after a successful parse: clear(), then the append loop.
ParsedResultNames(old, root) ==
  IF root.hasResults THEN NamesOfEntries(root.results) ELSE <<>>

\* Mutation: every entry of children is appended, not only entry 0.
ParsedChildrenAll(root) ==
  IF root.hasChildren THEN root.children ELSE <<>>

\* m_childDataSourceNamesAndLabels after a successful parse: clear(), then
\* entry 0 of children when it has both a name and a label.
ParsedChildren(root) ==
  IF root.hasChildren /\ Len(root.children) > 0
     /\ root.children[1].name # JNull /\ root.children[1].label # JNull
  THEN <<[name |-> root.children[1].name, label |-> root.children[1].label]>>
  ELSE <<>>

\* setHasChildDataSource(true) is called whenever children has an entry.
ParsedHasChild(old, root) ==
  IF root.hasChildren /\ Len(root.children) > 0 THEN TRUE ELSE old

\* Operator::setNumberOfResults(n): the slot list is resized to n, existing
\* slots are kept, new slots start without name and label.
SetNumberOfResults(slots, n) ==
  [k \in 1..n |-> IF k <= Len(slots) THEN slots[k]
                  ELSE [name |-> JNull, label |-> JNull]]

\* Mutation: the loop over the entries starts at the second one.
ParsedSlotsFromSecond(slots, root) ==
  IF ~root.hasResults THEN slots
  ELSE LET n == Len(root.results)
           sized == SetNumberOfResults(slots, n)
       IN [k \in 1..n |->
             IF k = 1 THEN sized[k]
             ELSE [name |-> IF root.results[k].name # JNull
                            THEN root.results[k].name ELSE sized[k].name,
                   label |-> IF root.results[k].label # JNull
                             THEN root.results[k].label ELSE sized[k].label]]

\* Result slots after a successful parse (lines 212-232).
ParsedSlots(slots, root) ==
  IF ~root.hasResults THEN slots
  ELSE LET n == Len(root.results)
           sized == SetNumberOfResults(slots, n)
       IN [k \in 1..n |->
             [name |-> IF root.results[k].name # JNull
                       THEN root.results[k].name ELSE sized[k].name,
              label |-> IF root.results[k].label # JNull
                        THEN root.results[k].label ELSE sized[k].label]]


\* --------------------------------------------------------------- threads
\* The thread the operator lives in (UI thread) and the pipeline worker.
OwnerThread == "owner"
WorkerThread == "worker"

\* Kinds of value a returned dictionary may hold under a name:
\*   "absent" no such key; "data" a wrapped vtkDataObject;
\*   "other" any other object (Py_None, a number, a VTK object of another class).
Kinds == {"absent", "data", "other"}
Dicts == [Names -> Kinds]
EmptyDict == [n \in Names |-> "absent"]

\* What PyObject_Call(TransformMethod, (data)) can produce: NULL with an error
\* set ("raise"), an object that is no dictionary ("value"), or a dictionary.
Returns ==
  {[kind |-> "raise", dict |-> EmptyDict], [kind |-> "value", dict |-> EmptyDict]}
  \cup {[kind |-> "dict", dict |-> d] : d \in Dicts}
NoResult == [kind |-> "none", dict |-> EmptyDict]

VARIABLES
  \* OperatorPython / Operator fields
  Script, Label, jsonDescription, OperatorModule, Code, TransformModule,
  TransformMethod, supportsCancel, m_resultNames,
  m_childDataSourceNamesAndLabels, resultSlots, hasChildDataSource,
  \* the worker thread inside applyTransform
  pc, i, result, errorEncountered, pyErr, ret,
  \* the PyDict_GetItemString lookups of the current invocation, in order
  runLookups,
  \* the interpreter and wrapper calls of the current invocation, each with
  \* whether the worker held the global interpreter lock while making it
  runTouches,
  \* the owning thread's event queue of queued slot invocations
  queue,
  \* history: what happened, recorded for the properties (runs counts the
  \* invocations, prevBound tells whether an entry point was bound before
  \* the last setScript that changed the text, everBound whether a
  \* setScript call ever ran to completion, installed is the document of
  \* the last successful parse, lastCall describes the last call when it was
  \* a setScript or a setJSONDescription: for setScript whether its text
  \* equalled the stored one, how many interpreter calls it made and whether
  \* it emitted transformModified, for a setJSONDescription that parsed its
  \* document the number of Result slots before the call; it is NoCall after
  \* any other call)
  runs, invoked, runPosts, runLog, nposted, napplied, lastApplied,
  attachThreads, prevBound, everBound, installed, lastCall,
  \* the other operators of the program: the one that clone() or
  \* addExpression() created last, as the record of its fields
  other

opVars == <<Script, Label, jsonDescription, OperatorModule, Code, TransformModule,
            TransformMethod, supportsCancel, m_resultNames,
            m_childDataSourceNamesAndLabels, resultSlots, hasChildDataSource>>
scriptVars == <<Script, Code, TransformModule, TransformMethod, supportsCancel>>
descVars == <<jsonDescription, m_resultNames, m_childDataSourceNamesAndLabels,
              resultSlots, hasChildDataSource>>
runVars == <<pc, i, result, errorEncountered, pyErr, ret, invoked, runPosts, runLog,
            runLookups, runTouches>>
bridgeVars == <<queue, nposted, napplied, lastApplied, attachThreads>>
histVars == <<prevBound, everBound, installed, lastCall, other>>
vars == <<opVars, runVars, bridgeVars, histVars, runs>>

NoCall == [same |-> FALSE, pyCalls |-> 0, emitted |-> FALSE, slots |-> 0]

\* State after the constructor.  PyImport_ImportModule("tomviz.utils") may
\* fail, leaving OperatorModule null; the operator then never runs a script.
Init ==
  /\ Script = S_Empty
  /\ Label = "Python Operator"
  /\ jsonDescription = D_None
  /\ OperatorModule \in BOOLEAN
  /\ Code = Null /\ TransformModule = Null /\ TransformMethod = Null
  /\ supportsCancel = FALSE
  /\ m_resultNames = <<>>
  /\ m_childDataSourceNamesAndLabels = <<>>
  /\ resultSlots = <<>>
  /\ hasChildDataSource = FALSE
  /\ pc = "idle" /\ i = 0 /\ result = NoResult
  /\ errorEncountered = FALSE /\ pyErr = FALSE /\ ret = "none"
  /\ queue = <<>>
  /\ runs = 0 /\ invoked = FALSE /\ runPosts = <<>> /\ runLog = <<>>
  /\ runLookups = <<>> /\ runTouches = {}
  /\ nposted = 0 /\ napplied = 0 /\ lastApplied = 0
  /\ attachThreads = {}
  /\ prevBound = FALSE
  /\ everBound = FALSE /\ installed = D_None
  /\ lastCall = NoCall
  /\ other = {}

\* ------------------------------------------------------------- setLabel
setLabel(txt) ==
  /\ pc = "idle"
  /\ Label' = txt
  /\ lastCall' = NoCall
  /\ UNCHANGED <<scriptVars, descVars, OperatorModule, runVars, bridgeVars,
                 prevBound, everBound, installed, other, runs>>

\* ------------------------------------------------------------ setScript
\* Mutation: the three references are not dropped before compiling, so a
\* failed compilation only replaces Code.
ClearedKeep(old) == old

\* Lines 268-270: the reference is dropped (TakeReference(nullptr)).
Cleared(old) == Null

\* The Compiled Script fields after setScript(str) with str # Script, as
\* <<Code, TransformModule, TransformMethod, supportsCancel>>: the references
\* are dropped, then each stage either stores its object or returns early.
Rebuilt(str, label, oldModule, oldMethod, oldCancel) ==
  LET module0 == Cleared(oldModule)
      method0 == Cleared(oldMethod)
      code == Py_CompileString(str)
      module == PyImport_ExecCodeModule(ModuleName(label), code)
      method == FindTransformScalars(module)
  IN IF code = Null THEN <<code, module0, method0, oldCancel>>
     ELSE IF module = Null THEN <<code, module, method0, oldCancel>>
     ELSE IF method = Null THEN <<code, module, method, oldCancel>>
     ELSE IF IsCancelable(module) = "fail" THEN <<code, module, method, oldCancel>>
     ELSE <<code, module, method, IsCancelable(module) = "yes">>

\* Mutation: the comparison with the stored text is lost, every call rebuilds.
SameTextNever(stored, str) == FALSE

\* Line 266: the guard `this->Script != str`, negated.
SameText(stored, str) == stored = str

\* Interpreter calls made by setScript(str) once past the guard: compile,
\* execute the module, find_transform_scalars, is_cancelable - up to the
\* first one that fails.
InterpreterCalls(str) ==
  IF ~Compiles(str) THEN 1
  ELSE IF ~ModuleLoads(str) THEN 2
  ELSE IF ~HasEntryPoint(str) THEN 3
  ELSE 4

\* Line 346 is reached: every stage succeeded.
EmitsTransformModified(str) ==
  Compiles(str) /\ ModuleLoads(str) /\ HasEntryPoint(str) /\ CancelQuery(str) # "fail"

\* The body of setScript(str), with `label` the operator's label when it runs.
ScriptSet(str, label) ==
  /\ pc = "idle"
  /\ lastCall' = IF SameText(Script, str)
                 THEN [same |-> (Script = str), pyCalls |-> 0, emitted |-> FALSE,
                              slots |-> 0]
                 ELSE [same |-> (Script = str), pyCalls |-> InterpreterCalls(str),
                       emitted |-> EmitsTransformModified(str), slots |-> 0]
  /\ IF ~SameText(Script, str)
     THEN LET r == Rebuilt(str, label, TransformModule, TransformMethod,
                           supportsCancel)
          IN /\ Script' = str
             /\ Code' = r[1]
             /\ TransformModule' = r[2]
             /\ TransformMethod' = r[3]
             /\ supportsCancel' = r[4]
             /\ everBound' = (everBound \/ (r[3] # Null /\ CancelQuery(str) # "fail"))
             /\ prevBound' = (TransformMethod # Null)
     ELSE UNCHANGED <<scriptVars, everBound, prevBound>>
  /\ UNCHANGED <<descVars, OperatorModule, runVars, bridgeVars, installed, other,
                 runs>>

setScript(str) == ScriptSet(str, Label) /\ UNCHANGED Label

\* ------------------------------------------------ serialize / deserialize
\* Texts with characters outside ASCII.  A TLA+ string cannot hold them, so
\* each is named by a string that spells the code point; Chars gives the
\* text itself.  All four are one-line comments for the interpreter.
T_Eacute == "#<U+00E9>"
T_Alpha == "#<U+03B1>"
T_Question == "#?"
T_Replacement == "#<U+FFFD>"

PersistScripts == {S_Empty, S_NoEntry, T_Eacute, T_Alpha, T_Question, T_Replacement}
PersistTexts == Labels \cup PersistScripts

\* The QString as its sequence of Unicode code points.
Chars(text) ==
  CASE text = "Python Operator" -> <<80, 121, 116, 104, 111, 110, 32, 79, 112, 101, 114, 97, 116, 111, 114>>
    [] text = "Transform Data" -> <<84, 114, 97, 110, 115, 102, 111, 114, 109, 32, 68, 97, 116, 97>>
    [] text = S_Empty -> <<>>
    [] text = S_NoEntry -> <<120, 32, 61, 32, 49>>
    [] text = T_Eacute -> <<35, 233>>
    [] text = T_Alpha -> <<35, 945>>
    [] text = T_Question -> <<35, 63>>
    [] text = T_Replacement -> <<35, 65533>>

\* QString::toLatin1(): one byte per character, '?' for a character that
\* Latin-1 does not have.
ToLatin1(cps) == [k \in 1..Len(cps) |-> IF cps[k] <= 255 THEN cps[k] ELSE 63]

RECURSIVE CString(_)
\* .data() handed to set_value(const char*) and as_string(): the bytes up to
\* the first NUL.
CString(bytes) ==
  IF bytes = <<>> \/ Head(bytes) = 0 THEN <<>>
  ELSE <<Head(bytes)>> \o CString(Tail(bytes))

IsContinuation(b) == b >= 128 /\ b <= 191

RECURSIVE FromUtf8(_)
\* QString(const char*) converts with QString::fromUtf8: one-, two- and
\* three-byte sequences are decoded, every other byte gives U+FFFD.
FromUtf8(bytes) ==
  IF bytes = <<>> THEN <<>>
  ELSE LET b == Head(bytes)
           n == Len(bytes)
       IN IF b < 128 THEN <<b>> \o FromUtf8(Tail(bytes))
          ELSE IF b >= 194 /\ b <= 223 /\ n >= 2 /\ IsContinuation(bytes[2])
          THEN <<(b - 192) * 64 + (bytes[2] - 128)>> \o FromUtf8(SubSeq(bytes, 3, n))
          ELSE IF b >= 224 /\ b <= 239 /\ n >= 3 /\ IsContinuation(bytes[2])
                  /\ IsContinuation(bytes[3])
                  /\ (b - 224) * 4096 + (bytes[2] - 128) * 64 + (bytes[3] - 128) >= 2048
          THEN <<(b - 224) * 4096 + (bytes[2] - 128) * 64 + (bytes[3] - 128)>>
               \o FromUtf8(SubSeq(bytes, 4, n))
          ELSE <<65533>> \o FromUtf8(Tail(bytes))

\* The QString with the given code points.
QStringOf(cps) == CHOOSE t \in PersistTexts : Chars(t) = cps

\* serialize(ns): the attributes appended to the node.
Serialize(label, script) ==
  [label |-> CString(ToLatin1(Chars(label))),
   script |-> CString(ToLatin1(Chars(script)))]

\* deserialize(ns): setLabel, then setScript, with the attributes' texts.
deserialize(ns) ==
  LET txt == QStringOf(FromUtf8(ns.label))
      str == QStringOf(FromUtf8(ns.script))
  IN /\ Label' = txt
     /\ ScriptSet(str, txt)

\* --------------------------------------------------- setJSONDescription
setJSONDescription(str) ==
  /\ pc = "idle"
  /\ IF jsonDescription = str
     THEN /\ lastCall' = NoCall
          /\ UNCHANGED <<descVars, Label, installed>>
     ELSE LET root == JsonParse(str)
          IN /\ jsonDescription' = str
             /\ IF ~root.ok
                THEN /\ lastCall' = NoCall
                     /\ UNCHANGED <<m_resultNames, m_childDataSourceNamesAndLabels,
                                    resultSlots, hasChildDataSource, Label, installed>>
                ELSE /\ lastCall' = [NoCall EXCEPT !.slots = Len(resultSlots)]
                     /\ Label' = IF root.label # JNull THEN root.label ELSE Label
                     /\ m_resultNames' = ParsedResultNames(m_resultNames, root)
                     /\ m_childDataSourceNamesAndLabels' = ParsedChildren(root)
                     /\ resultSlots' = ParsedSlots(resultSlots, root)
                     /\ hasChildDataSource' = ParsedHasChild(hasChildDataSource, root)
                     /\ installed' = str
  /\ UNCHANGED <<scriptVars, OperatorModule, runVars, bridgeVars, everBound,
                 prevBound, other, runs>>


\* ------------------------------------------------- signal-slot delivery
\* ------------------------------------------------ clone / addExpression
\* new OperatorPython(): the fields after the constructor.
NewOperator ==
  [Label |-> "Python Operator", Script |-> S_Empty, jsonDescription |-> D_None,
   Code |-> Null, TransformModule |-> Null, TransformMethod |-> Null,
   supportsCancel |-> FALSE, m_resultNames |-> <<>>,
   m_childDataSourceNamesAndLabels |-> <<>>, resultSlots |-> <<>>,
   hasChildDataSource |-> FALSE]

\* op->setLabel(txt)
WithLabel(op, txt) == [op EXCEPT !.Label = txt]

\* op->setScript(str)
WithScript(op, str) ==
  IF SameText(op.Script, str) THEN op
  ELSE LET r == Rebuilt(str, op.Label, op.TransformModule, op.TransformMethod,
                        op.supportsCancel)
       IN [op EXCEPT !.Script = str, !.Code = r[1], !.TransformModule = r[2],
                     !.TransformMethod = r[3], !.supportsCancel = r[4]]

\* op->setJSONDescription(str)
WithJSONDescription(op, str) ==
  IF op.jsonDescription = str THEN op
  ELSE LET root == JsonParse(str)
       IN IF ~root.ok THEN [op EXCEPT !.jsonDescription = str]
          ELSE [op EXCEPT
                  !.jsonDescription = str,
                  !.Label = IF root.label # JNull THEN root.label ELSE op.Label,
                  !.m_resultNames = ParsedResultNames(op.m_resultNames, root),
                  !.m_childDataSourceNamesAndLabels = ParsedChildren(root),
                  !.resultSlots = ParsedSlots(op.resultSlots, root),
                  !.hasChildDataSource = ParsedHasChild(op.hasChildDataSource, root)]

\* clone(): a new operator is given the label, the script and the JSON
\* description of this one, in that order.
clone ==
  /\ pc = "idle"
  /\ other' = {WithJSONDescription(WithScript(WithLabel(NewOperator, Label), Script),
                                   jsonDescription)}
  /\ lastCall' = NoCall
  /\ UNCHANGED <<opVars, runVars, bridgeVars, prevBound, everBound, installed, runs>>

\* AddExpressionReaction::addExpression: a new operator is given the script
\* and then the label "Transform Data".
addExpression(script) ==
  /\ pc = "idle"
  /\ other' = {WithLabel(WithScript(NewOperator, script), "Transform Data")}
  /\ lastCall' = NoCall
  /\ UNCHANGED <<opVars, runVars, bridgeVars, prevBound, everBound, installed, runs>>

\* Qt::AutoConnection (the connect calls of the constructor): a signal emitted
\* from the receiver's thread calls the slot directly, one emitted from
\* another thread queues the call in the receiver's event loop.
ConnectionDirect(sender, receiver) == "direct"

ConnectionType(sender, receiver) ==
  IF sender = receiver THEN "direct" ELSE "queued"

\* Mutation: the queued call is put in front of the pending ones.
PostFront(q, msg) == <<msg>> \o q

\* Mutation: the queued call is dropped.
PostLost(q, msg) == q

\* QCoreApplication::postEvent for a queued slot call: appended to the queue.
Post(q, msg) == Append(q, msg)

\* emit newOperatorResult(name, data) / newChildDataSource(label, data) from
\* `thread`.  The message carries the data handle (run, name) and the number
\* of the emission.
Emit(thread, type, key, name) ==
  LET msg == [type |-> type, key |-> key, data |-> <<runs, name>>,
              seq |-> nposted + 1]
  IN /\ nposted' = nposted + 1
     /\ runPosts' = Append(runPosts, msg)
     /\ IF ConnectionType(thread, OwnerThread) = "queued"
        THEN /\ queue' = Post(queue, msg)
             /\ UNCHANGED <<napplied, lastApplied, attachThreads>>
        ELSE /\ napplied' = napplied + 1
             /\ lastApplied' = msg.seq
             /\ attachThreads' = attachThreads \cup {thread}
             /\ UNCHANGED queue

\* The owning thread's event loop delivers the oldest queued call to its slot:
\* setOperatorResult(name, data) or createNewChildDataSource(label, data).
Deliver ==
  /\ queue # <<>>
  /\ queue' = Tail(queue)
  /\ napplied' = napplied + 1
  /\ lastApplied' = Head(queue).seq
  /\ attachThreads' = attachThreads \cup {OwnerThread}
  /\ UNCHANGED <<opVars, runVars, histVars, runs, nposted>>

\* ------------------------------------------------------- applyTransform
\* vtkPythonUtil::GetPointerFromObject + SafeDownCast yield a data object.
IsDataObject(kind) == kind = "data"

\* vtkPythonUtil::GetPointerFromObject on an object that is no vtkDataObject
\* returns NULL; for Py_None it sets no error, for any other object it sets a
\* TypeError, which stays pending in the interpreter.  The call is made
\* outside any vtkPythonScopeGilEnsurer scope (lines 406-408, 436-439), so
\* whether the error is still visible to the final CheckForError is not
\* determined.  The possible error indicators after unwrapping a value of
\* `kind`, given the indicator before:
ErrorAfterUnwrap(kind, pending) ==
  IF kind = "other" THEN {pending, TRUE} ELSE {pending}

\* Whether the call `site` of applyTransform is made inside the scope of a
\* vtkPythonScopeGilEnsurer: all are but the wrapping of the input (line
\* 361) and the unwrapping of a returned value (lines 406-407, 437-438).
InGilScope(site) == site \notin {"GetObjectFromPointer", "GetPointerFromObject"}

Touch(site) == [site |-> site, thread |-> WorkerThread, held |-> InGilScope(site)]

\* Lines 352-377: the early returns and the call of the entry point.
ApplyBegin(r) ==
  /\ pc = "idle"
  /\ runs < MaxRuns
  /\ runs' = runs + 1
  /\ runPosts' = <<>> /\ runLog' = <<>> /\ runLookups' = <<>>
  /\ errorEncountered' = FALSE
  /\ IF Script = S_Empty \/ ~OperatorModule \/ TransformMethod = Null
     THEN /\ invoked' = FALSE /\ ret' = "true" /\ pc' = "done"
          /\ runTouches' = {}
          /\ UNCHANGED <<i, result, pyErr>>
     ELSE /\ invoked' = TRUE
          /\ result' = r
          /\ runTouches' = {Touch("GetObjectFromPointer"), Touch("PyObject_Call")}
                \cup (IF r.kind = "raise" THEN {Touch("PyErr_Occurred")}
                      ELSE {Touch("PyDict_Check")})
          /\ IF r.kind = "raise"
             THEN \* CheckForError prints and clears the error
                  /\ ret' = "false" /\ pc' = "done" /\ pyErr' = FALSE
                  /\ UNCHANGED i
             ELSE IF r.kind = "dict"
             THEN /\ pc' = "results" /\ i' = 1 /\ UNCHANGED <<ret, pyErr>>
             ELSE /\ pc' = "final" /\ UNCHANGED <<i, ret, pyErr>>
  /\ lastCall' = NoCall
  /\ UNCHANGED <<opVars, bridgeVars, prevBound, everBound, installed, other>>

\* Mutation: a missing name leaves the loop (break) instead of continuing.
BreakLoop(k, n) == n + 1

\* `continue`: the loop over n entries goes on with the entry after k.
Continue(k, n) == k + 1

\* Lines 392-416: one iteration of the loop over m_resultNames.
ApplyResult ==
  /\ pc = "results"
  /\ IF i > Len(m_resultNames)
     THEN /\ pc' = "children" /\ i' = 1
          /\ UNCHANGED <<errorEncountered, pyErr, runPosts, runLog, runLookups,
                         runTouches, bridgeVars>>
     ELSE LET name == m_resultNames[i]
              kind == result.dict[name]
          IN /\ pc' = pc
             /\ runLookups' = Append(runLookups, <<"result", name>>)
             /\ runTouches' = runTouches \cup {Touch("PyDict_GetItemString")}
                   \cup (IF kind = "absent" THEN {}
                         ELSE {Touch("GetPointerFromObject")})
             /\ i' = IF kind = "absent" THEN Continue(i, Len(m_resultNames)) ELSE i + 1
             /\ IF kind = "absent"
                THEN /\ errorEncountered' = TRUE
                     /\ runLog' = Append(runLog, <<"No result named", name>>)
                     /\ UNCHANGED <<pyErr, runPosts, bridgeVars>>
                ELSE IF IsDataObject(kind)
                THEN /\ Emit(WorkerThread, "result", name, name)
                     /\ UNCHANGED <<errorEncountered, pyErr, runLog>>
                ELSE /\ runLog' = Append(runLog, <<"not a vtkDataObject", name>>)
                     /\ pyErr' \in ErrorAfterUnwrap(kind, pyErr)
                     /\ UNCHANGED <<errorEncountered, runPosts, bridgeVars>>
  /\ UNCHANGED <<opVars, histVars, runs, result, ret, invoked>>

\* Lines 419-443: one iteration of the loop over the child data sources.
ApplyChild ==
  /\ pc = "children"
  /\ IF i > Len(m_childDataSourceNamesAndLabels)
     THEN /\ pc' = "final"
          /\ UNCHANGED <<i, errorEncountered, pyErr, runPosts, runLog, runLookups,
                         runTouches, bridgeVars>>
     ELSE LET name == m_childDataSourceNamesAndLabels[i].name
              label == m_childDataSourceNamesAndLabels[i].label
              kind == result.dict[name]
          IN /\ pc' = pc
             /\ runLookups' = Append(runLookups, <<"child", name>>)
             /\ runTouches' = runTouches \cup {Touch("PyDict_GetItemString")}
                   \cup (IF kind = "absent" THEN {}
                         ELSE {Touch("GetPointerFromObject")})
             /\ i' = IF kind = "absent"
                     THEN Continue(i, Len(m_childDataSourceNamesAndLabels))
                     ELSE i + 1
             /\ IF kind = "absent"
                THEN /\ errorEncountered' = TRUE
                     /\ runLog' = Append(runLog, <<"No child data source named", name>>)
                     /\ UNCHANGED <<pyErr, runPosts, bridgeVars>>
                ELSE IF IsDataObject(kind)
                THEN /\ Emit(WorkerThread, "child", label, name)
                     /\ UNCHANGED <<errorEncountered, pyErr, runLog>>
                ELSE /\ pyErr' \in ErrorAfterUnwrap(kind, pyErr)
                     /\ UNCHANGED <<errorEncountered, runPosts, runLog, bridgeVars>>
  /\ UNCHANGED <<opVars, histVars, runs, result, ret, invoked>>

\* CheckForError(): reports a pending interpreter error and clears it.
CheckForError(pending) == pending

\* Lines 445-457: the aggregated diagnostic and the return value.
ApplyFinal ==
  /\ pc = "final"
  /\ runLog' = IF errorEncountered
               THEN Append(runLog, <<"Dictionary return from Python script is", "repr">>)
               ELSE runLog
  /\ ret' = IF CheckForError(pyErr) = FALSE THEN "true" ELSE "false"
  /\ runTouches' = runTouches \cup {Touch("PyErr_Occurred")}
        \cup (IF errorEncountered THEN {Touch("PyObject_Repr")} ELSE {})
  /\ pyErr' = FALSE
  /\ pc' = "done"
  /\ UNCHANGED <<opVars, histVars, runs, bridgeVars, i, result, errorEncountered,
                 invoked, runPosts, runLookups>>

\* applyTransform has returned `ret` to the pipeline worker; the worker goes on.
ApplyReturn ==
  /\ pc = "done"
  /\ pc' = "idle" /\ i' = 0 /\ result' = NoResult /\ ret' = "none"
  /\ errorEncountered' = FALSE /\ invoked' = FALSE
  /\ runPosts' = <<>> /\ runLog' = <<>> /\ runLookups' = <<>>
  /\ runTouches' = {}
  /\ UNCHANGED <<opVars, histVars, runs, bridgeVars, pyErr>>

\* ------------------------------------------------------------ the system
Next ==
  \/ \E txt \in Labels : setLabel(txt)
  \/ \E str \in Scripts : setScript(str)
  \/ \E str \in Documents : setJSONDescription(str)
  \/ \E r \in Returns : ApplyBegin(r)
  \/ ApplyResult
  \/ ApplyChild
  \/ ApplyFinal
  \/ ApplyReturn
  \/ Deliver

Spec == Init /\ [][Next]_vars

\* The hand-off from the worker to the owning thread: an operator with a
\* bound script and a descriptor is run, and the owning thread runs its event
\* loop, so a queued slot call that is pending is delivered at some time.
HandOffDocuments == {D_One, D_Full, D_TwoKids}

NextHandOff ==
  \/ setScript(S_Plain)
  \/ \E str \in HandOffDocuments : setJSONDescription(str)
  \/ \E r \in Returns : ApplyBegin(r)
  \/ ApplyResult
  \/ ApplyChild
  \/ ApplyFinal
  \/ ApplyReturn
  \/ Deliver

SpecHandOff == Init /\ [][NextHandOff]_vars /\ WF_vars(Deliver)

\* An operator that is configured on the owning thread and never run: the
\* calls of setLabel and setJSONDescription in any order.
NextDescriptor ==
  \/ \E txt \in Labels : setLabel(txt)
  \/ \E str \in DescriptorDocuments : setJSONDescription(str)

SpecDescriptor == Init /\ [][NextDescriptor]_vars

\* An operator that is edited and loaded from the serialized form of an
\* operator x with any label and script.
NextPersist ==
  \/ \E txt \in Labels : setLabel(txt)
  \/ \E str \in PersistScripts : setScript(str)
  \/ \E xl \in Labels, xs \in PersistScripts : deserialize(Serialize(xl, xs))

SpecPersist == Init /\ [][NextPersist]_vars

\* Two operators: this one is edited on the owning thread, the other one is
\* created by clone() or by addExpression().
PairScripts == {S_NoEntry, S_Plain, S_Cancel}
PairDocuments == {D_Bad, D_One, D_Full}

NextPair ==
  \/ \E txt \in Labels : setLabel(txt)
  \/ \E str \in PairScripts : setScript(str)
  \/ \E str \in PairDocuments : setJSONDescription(str)
  \/ clone
  \/ \E script \in PairScripts : addExpression(script)

SpecPair == Init /\ [][NextPair]_vars


\* ================================================================ claims
\* Helpers of the properties.
RECURSIVE IsSubSeq(_, _)
IsSubSeq(s, t) ==
  IF s = <<>> THEN TRUE
  ELSE IF t = <<>> THEN FALSE
  ELSE IF Head(s) = Head(t) THEN IsSubSeq(Tail(s), Tail(t))
  ELSE IsSubSeq(s, Tail(t))

\* The outputs the operator currently declares, in declaration order: the
\* result names, then the child dataset (delivered under its label).
DeclaredOrder ==
  [k \in 1..Len(m_resultNames) |-> <<"result", m_resultNames[k]>>]
  \o [k \in 1..Len(m_childDataSourceNamesAndLabels) |->
        <<"child", m_childDataSourceNamesAndLabels[k].label>>]

PostKeys(posts) == [k \in 1..Len(posts) |-> <<posts[k].type, posts[k].key>>]

\* Number of messages of `type` with key `key` emitted by the current invocation.
PostCount(type, key) ==
  Cardinality({k \in 1..Len(runPosts) :
                 runPosts[k].type = type /\ runPosts[k].key = key})

\* C1: the owning thread applies the queued attachResult / attachChildDataset
\* calls in exactly the order the worker posted them (the k-th call applied is
\* the k-th one posted, and the pending ones wait in post order), and within
\* one applyTransform invocation the posts follow the declared result-name
\* order, the child dataset last.
C1_AppliedInPostOrder ==
  /\ lastApplied = napplied
  /\ \A k \in 1..Len(queue) : queue[k].seq = napplied + k
  /\ IsSubSeq(PostKeys(runPosts), DeclaredOrder)

\* Witness of C1: one invocation has posted two results and the child dataset;
\* the owner has applied some of them while another is still pending.
C1_Witness ==
  /\ Len(runPosts) = 3
  /\ napplied >= 1
  /\ queue # <<>>

\* C2: attaching a result (setOperatorResult) and creating a child data source
\* (createNewChildDataSource) are executed by the owning thread only;
\* applyTransform on the worker only posts: every message it emitted is either
\* still queued or was applied by the owner.
C2_AttachOnOwnerOnly ==
  /\ attachThreads \subseteq {OwnerThread}
  /\ nposted = napplied + Len(queue)

\* Witness of C2: the worker is still inside applyTransform after posting two
\* results and a child dataset, and the owner has attached all three.
C2_Witness ==
  /\ pc = "done"
  /\ Len(runPosts) = 3
  /\ queue = <<>>
  /\ attachThreads = {OwnerThread}

\* Result names declared by a descriptor document.
DeclaredNames(doc) ==
  LET root == JsonParse(doc)
  IN IF root.ok /\ root.hasResults
     THEN {root.results[k].name : k \in 1..Len(root.results)} \ {JNull}
     ELSE {}

\* C3: every result name for which applyTransform posts an attachResult
\* message is declared by the descriptor of the last setJSONDescription call
\* that parsed successfully.
C3_PostedNamesDeclared ==
  \A k \in 1..Len(runPosts) :
    runPosts[k].type = "result" => runPosts[k].key \in DeclaredNames(installed)

\* Witness of C3: a result is posted while the stored document is a malformed
\* one that was offered after the descriptor in force.
C3_Witness ==
  /\ \E k \in 1..Len(runPosts) : runPosts[k].type = "result"
  /\ jsonDescription = D_Bad
  /\ installed = D_One


\* A valid Compiled Script is in place: an entry point is bound.
Bound == TransformMethod # Null

\* C4 (as stated): a script text that fails to compile leaves a previously
\* valid Compiled Script (code, module, entry point) in place if one existed
\* before the call, and otherwise leaves the operator unbound.
C4_KeepsPreviousScript ==
  [][(Script' # Script /\ ~Compiles(Script')) =>
       IF Bound
       THEN <<Code', TransformModule', TransformMethod'>>
              = <<Code, TransformModule, TransformMethod>>
       ELSE TransformMethod' = Null]_vars

\* C4 (amended): a script text that fails to compile leaves the operator
\* unbound - compiled code, module and entry point are all absent after
\* setScript - whether or not a valid Compiled Script existed before the call.
C4_FailedCompileUnbinds ==
  ~Compiles(Script) =>
    /\ Code = Null
    /\ TransformModule = Null
    /\ TransformMethod = Null

\* Witness of C4: the stored text does not compile, an entry point was bound
\* before the setScript call that stored it, and none is bound now.
C4_Witness ==
  /\ ~Compiles(Script)
  /\ prevBound
  /\ ~Bound

\* All four fields of the Compiled Script hold values derived from `text`.
AllFresh(text, label, code, module, method, cancel) ==
  /\ code = <<"code", text>>
  /\ module = <<"module", ModuleName(label), text>>
  /\ method = <<"method", text>>
  /\ CancelQuery(text) # "fail"
  /\ cancel = (CancelQuery(text) = "yes")

\* C5: the Compiled Script is never partially updated: after a setScript call
\* that changes the text, either all four fields (code, module, entry point,
\* supportsCancel) are fresh values derived from the new text, or no entry
\* point is bound; on every failure path.
C5_NeverPartiallyUpdated ==
  [][Script' # Script =>
       \/ TransformMethod' = Null
       \/ AllFresh(Script', Label', Code', TransformModule', TransformMethod',
                   supportsCancel')]_vars

\* C6: with a stored script that fails to compile, applyTransform invokes
\* nothing and posts nothing, and it returns success exactly when no script
\* had ever been bound on the operator; otherwise it does not return success.
C6_UnboundApplySurfaces ==
  (pc = "done" /\ ~Compiles(Script)) =>
    /\ ~invoked
    /\ runPosts = <<>>
    /\ (ret = "true") <=> ~everBound

\* C7: when the entry point raises, applyTransform reports failure and posts
\* no message in that invocation; and whenever applyTransform reports failure,
\* no message was posted in that invocation.
C7_FailurePostsNothing ==
  pc = "done" =>
    /\ (invoked /\ result.kind = "raise") => (ret = "false" /\ runPosts = <<>>)
    /\ ret = "false" => runPosts = <<>>

\* The set of elements of a sequence.
Range(seq) == {seq[k] : k \in 1..Len(seq)}

\* C8: when the entry point returns a mapping, then for every declared result
\* name exactly one attachResult(name, data) message is posted if the mapping
\* holds a data object under that name and none otherwise; a missing name is
\* logged and prevents neither the posting of the other declared names that
\* are present nor that of the declared child dataset.
C8_OnePostPerPresentName ==
  (result.kind = "dict" /\ pc \in {"children", "final", "done"}) =>
    /\ \A n \in Range(m_resultNames) :
         /\ PostCount("result", n) = (IF result.dict[n] = "data" THEN 1 ELSE 0)
         /\ result.dict[n] = "absent" => <<"No result named", n>> \in Range(runLog)
    /\ pc \in {"final", "done"} =>
         \A c \in Range(m_childDataSourceNamesAndLabels) :
           PostCount("child", c.label) = (IF result.dict[c.name] = "data" THEN 1 ELSE 0)

\* Witness of C8: the first declared name is missing from the mapping, and the
\* second declared name and the child dataset were both posted.
C8_Witness ==
  /\ pc = "done"
  /\ m_resultNames = <<"b", "a">>
  /\ result.kind = "dict"
  /\ result.dict["b"] = "absent"
  /\ <<"No result named", "b">> \in Range(runLog)
  /\ PostKeys(runPosts) = <<<<"result", "a">>, <<"child", "C">>>>

\* C9: a result-extraction error never fails the invocation: if a declared
\* result name or the declared child-dataset name is missing from the returned
\* mapping or holds a value of the wrong kind, applyTransform still reports
\* success and nothing is posted for that slot.
C9_ExtractionErrorNotFatal ==
  (pc = "done" /\ result.kind = "dict") =>
    /\ \A n \in Range(m_resultNames) :
         result.dict[n] # "data" => (ret = "true" /\ PostCount("result", n) = 0)
    /\ \A c \in Range(m_childDataSourceNamesAndLabels) :
         result.dict[c.name] # "data" => (ret = "true" /\ PostCount("child", c.label) = 0)

\* The text compiles but defines no entry point.
LacksEntryPoint(text) == Compiles(text) /\ ~HasEntryPoint(text)

C11_SameTextIsNoOp ==
  /\ [](lastCall.same => (lastCall.pyCalls = 0 /\ ~lastCall.emitted))
  /\ [][(lastCall'.same /\ lastCall' # lastCall) => UNCHANGED opVars]_vars

\* Witness of C11: the stored text failed to compile and was offered again.
C11_Witness ==
  /\ ~Compiles(Script)
  /\ lastCall.same
  /\ TransformMethod = Null

\* What a descriptor determines on the operator, with the stored text that
\* JSONDescription() returns.
DescriptorState ==
  <<Label, m_resultNames, resultSlots, m_childDataSourceNamesAndLabels,
    hasChildDataSource, jsonDescription>>

Malformed(str) == ~JsonParse(str).ok

\* C12: a setJSONDescription call with a malformed document leaves the label,
\* the declared result names, the Result slots, the child expectation and
\* the installed descriptor as they were before the call.
C12_MalformedLeavesDescriptor ==
  [][\A str \in DescriptorDocuments :
       (Malformed(str) /\ setJSONDescription(str)) => UNCHANGED DescriptorState]_vars

\* C13: after a setJSONDescription whose document parses and has a results
\* array of N entries there are exactly N Result slots, and slot k has the
\* name and the label that entry k gives, whatever number of slots there was
\* before the call.
C13_SlotsFollowResults ==
  [][\A str \in DescriptorDocuments :
       LET root == JsonParse(str)
       IN (root.ok /\ root.hasResults /\ setJSONDescription(str)) =>
            /\ Len(resultSlots') = Len(root.results)
            /\ \A k \in 1..Len(root.results) :
                 /\ root.results[k].name # JNull
                      => resultSlots'[k].name = root.results[k].name
                 /\ root.results[k].label # JNull
                      => resultSlots'[k].label = root.results[k].label]_vars

\* Witness of C13: a document with one entry was installed while there were
\* two slots.
C13_Witness ==
  /\ jsonDescription = D_One
  /\ lastCall.slots = 2
  /\ resultSlots = <<[name |-> "a", label |-> "A"]>>

\* C14: once a document whose children array has more than one entry was
\* installed, the operator expects the child of entry 0 and no other: in a
\* run no later entry's name is looked up as a child and no message for a
\* later entry's label is emitted.
C14_OnlyFirstChildHonoured ==
  LET root == JsonParse(installed)
  IN (root.ok /\ root.hasChildren /\ Len(root.children) > 1) =>
       /\ m_childDataSourceNamesAndLabels =
            <<[name |-> root.children[1].name, label |-> root.children[1].label]>>
       /\ hasChildDataSource
       /\ \A k \in 2..Len(root.children) :
            /\ <<"child", root.children[k].name>> \notin Range(runLookups)
            /\ \A p \in 1..Len(runPosts) :
                 ~(runPosts[p].type = "child" /\ runPosts[p].key = root.children[k].label)

\* Witness of C14: a run under the two-children document returned data under
\* both children's names and has finished with the one message for entry 0.
C14_Witness ==
  /\ installed = D_TwoKids
  /\ pc = "done"
  /\ result.kind = "dict"
  /\ result.dict["c"] = "data" /\ result.dict["b"] = "data"
  /\ Len(runPosts) = 1 /\ runPosts[1].key = "C"

\* The first entry of children lacks its name or its label.
FirstChildIncomplete(root) ==
  /\ root.ok /\ root.hasChildren /\ Len(root.children) > 0
  /\ (root.children[1].name = JNull \/ root.children[1].label = JNull)

\* C15: after a setJSONDescription whose document's first children entry
\* lacks its name or its label, the operator records no child name/label
\* pair and does not report a child data source.
C15_IncompleteChildRejected ==
  [][\A str \in DescriptorDocuments :
       (FirstChildIncomplete(JsonParse(str)) /\ setJSONDescription(str)) =>
          /\ m_childDataSourceNamesAndLabels' = <<>>
          /\ ~hasChildDataSource']_vars

\* C16: serialize writes exactly the attributes label and script, and an
\* operator that deserializes what serialize wrote for an operator x has the
\* label and the script text of x.
C16_RoundTrip ==
  [][\A xl \in Labels, xs \in PersistScripts :
       /\ DOMAIN Serialize(xl, xs) = {"label", "script"}
       /\ deserialize(Serialize(xl, xs)) => (Label' = xl /\ Script' = xs)]_vars

\* C17: every interpreter interaction of applyTransform on a completely
\* bound script (call, dictionary lookup, wrapping and unwrapping of
\* objects, error check) is made while the executing thread holds the global
\* interpreter lock.
C17_TouchesHoldGil ==
  EmitsTransformModified(Script) => \A t \in runTouches : t.held

\* The names applyTransform looks up in a returned dictionary.
ExpectedNames ==
  Range(m_resultNames)
    \cup {m_childDataSourceNamesAndLabels[k].name :
            k \in 1..Len(m_childDataSourceNamesAndLabels)}

\* The aggregated diagnostic of lines 445-454.
DictionaryDump == <<"Dictionary return from Python script is", "repr">>

\* C18: when an invocation of a completely bound script has processed a
\* returned dictionary that holds, under a declared result or child name, a
\* value that is no data object, the aggregated diagnostic with the dump of
\* the dictionary was logged, as for a missing name.
C18_WrongKindCountsAsError ==
  (/\ pc = "done" /\ invoked /\ result.kind = "dict"
   /\ EmitsTransformModified(Script)
   /\ \E name \in ExpectedNames : result.dict[name] = "other")
    => DictionaryDump \in Range(runLog)

\* C19: a setJSONDescription call with the document whose parse last
\* succeeded changes neither the label, the declared result names, the
\* Result slots nor the child expectation, also when a malformed document
\* was offered since.
C19_InstalledAgainIsNoOp ==
  [][\A str \in DescriptorDocuments :
       (str = installed /\ JsonParse(str).ok /\ setJSONDescription(str)) =>
          UNCHANGED <<Label, m_resultNames, resultSlots,
                      m_childDataSourceNamesAndLabels, hasChildDataSource>>]_vars

\* C20: after a setJSONDescription call that parsed a new document, the
\* Result slots, the declared result names and the child expectation are
\* those of that document alone: as many slots as it has results entries
\* (none without a results member), the names of its entries, and neither a
\* child pair nor a reported child data source without a children member.
C20_FullyRebuilt ==
  [][\A str \in DescriptorDocuments :
       LET root == JsonParse(str)
       IN (root.ok /\ jsonDescription # str /\ setJSONDescription(str)) =>
            /\ Len(resultSlots') = Len(root.results)
            /\ m_resultNames' = NamesOfEntries(root.results)
            /\ ~root.hasChildren =>
                 /\ m_childDataSourceNamesAndLabels' = <<>>
                 /\ ~hasChildDataSource']_vars

\* The name under which the module was registered (sys.modules key).
RegisteredName(module) == module[2]

\* C21: two distinct operators that each have an entry point bound have
\* registered their modules under different names.
C21_ModuleNamesDistinct ==
  \A o \in other :
    (TransformMethod # Null /\ o.TransformMethod # Null)
      => RegisteredName(TransformModule) # RegisteredName(o.TransformModule)

\* C22: the operator that clone() returns has the label, the script text and
\* the JSON description of the original, whatever state the original is in.
C22_CloneEqualsOriginal ==
  [][clone =>
       \A o \in other' : /\ o.Label = Label
                          /\ o.Script = Script
                          /\ o.jsonDescription = jsonDescription]_vars

\* The worker is inside applyTransform.
InApply == pc \in {"results", "children", "final", "done"}

\* The next step of applyTransform.
ApplyStep == ApplyResult \/ ApplyChild \/ ApplyFinal \/ ApplyReturn

\* Every emission is either applied or pending, the pending ones are in
\* emission order and none of them was applied already.
NothingLostOrDuplicated ==
  /\ napplied + Len(queue) = nposted
  /\ \A k \in 1..Len(queue) :
       /\ queue[k].seq > lastApplied
       /\ k > 1 => queue[k].seq > queue[k - 1].seq

\* C23: every message that applyTransform emits is applied on the owning
\* thread at some time, and once only; and the worker inside applyTransform
\* can always take its next step, whatever is pending for the owning thread.
C23_HandOffComplete ==
  /\ []NothingLostOrDuplicated
  /\ [](InApply => ENABLED ApplyStep)
  /\ \A k \in 1..(MaxRuns * Cardinality(Names)) :
       (nposted >= k) ~> (napplied >= k /\ lastApplied >= k)

\* Witness of C23: applyTransform has returned while both of its messages
\* are still pending for the owning thread.
C23_Witness ==
  /\ pc = "idle" /\ runs > 0
  /\ nposted = 2 /\ napplied = 0 /\ Len(queue) = 2

====
